---- MODULE Spec2Model ----
(***************************************************************************)
(* A model of the block lifecycle engine of `enough` (src/src/block.rs,    *)
(* src/src/daemon/macos.rs, src/src/cli.rs).                               *)
(*                                                                         *)
(* Text (the hosts file, a host name) is a sequence of atoms: an atom is a *)
(* piece of text that holds no newline and no part of another atom.  The   *)
(* atom "\n" is the newline, the two markers are one atom each, "www." is  *)
(* one atom.  Concatenation is \o.                                         *)
(*                                                                         *)
(* Time is counted in ticks; a second is TicksPerSec ticks and a day is    *)
(* DaySecs seconds (a scaled day: what matters is that a duration can be   *)
(* longer than it).                                                        *)
(***************************************************************************)
EXTENDS Integers, Sequences, FiniteSets, TLC

VARIABLES
    clock,      \* the wall clock, in ticks
    hosts,      \* content of /etc/hosts
    stateDir,   \* whether /tmp/enough exists
    stateFile,  \* /tmp/enough/current_block.yaml: NoRec or a BlockState
    daemonId,   \* /tmp/enough/daemon_id: NoId or an identifier
    homeFile,   \* whether /tmp/enough/home_dir exists
    plists,     \* the unit definition files: identifier -> second of the day
    loaded,     \* identifiers registered with launchd
    due,        \* ghost: identifier -> the unblock_time schedule() was given
    nextId,     \* the next fresh Uuid
    last,       \* the last operation run and what it returned
    pure,       \* inputs and position of the pure-function harness
    race        \* positions and locals of two processes that run at once

vars == <<clock, hosts, stateDir, stateFile, daemonId, homeFile, plists,
          loaded, due, nextId, last, pure, race>>

fsvars == <<hosts, stateDir, stateFile, daemonId, homeFile, plists, loaded>>

----------------------------------------------------------------------------
(* Bounds of the model *)

MaxClock == 3
MaxIds == 2
TicksPerSec == 2
DaySecs == 2
MaxLen == 5

DayTicks == DaySecs * TicksPerSec

----------------------------------------------------------------------------
(* Text *)

NL == "\n"
ENOUGH_MARKER_START == "# ENOUGH BLOCK START"
ENOUGH_MARKER_END == "# ENOUGH BLOCK END"
WWW == "www."
IPV4 == "0.0.0.0 "
IPV6 == "::1 "

\* str::contains for a one-atom pattern
Contains(s, atom) == \E i \in 1..Len(s) : s[i] = atom

\* str::split('\n'): n newlines give n+1 pieces
RECURSIVE SplitNL(_)
SplitNL(s) ==
    IF \A i \in 1..Len(s) : s[i] # NL THEN <<s>>
    ELSE LET k == CHOOSE i \in 1..Len(s) :
                     s[i] = NL /\ \A j \in 1..(i-1) : s[j] # NL
         IN <<SubSeq(s, 1, k-1)>> \o SplitNL(SubSeq(s, k+1, Len(s)))

\* str::lines(): the pieces between newlines; a final empty piece is no line
Lines(s) ==
    LET p == SplitNL(s)
    IN IF p[Len(p)] = <<>> THEN SubSeq(p, 1, Len(p)-1) ELSE p

\* [&str]::join("\n")
RECURSIVE Join(_)
Join(ls) ==
    IF ls = <<>> THEN <<>>
    ELSE IF Len(ls) = 1 THEN ls[1]
    ELSE ls[1] \o <<NL>> \o Join(Tail(ls))

\* the loop of remove_existing_blocks with an end marker that does not clear
\* the flag
RECURSIVE FilterLines_sticky(_, _, _)
FilterLines_sticky(ls, i, in_block) ==
    IF i > Len(ls) THEN <<>>
    ELSE IF Contains(ls[i], ENOUGH_MARKER_START) THEN FilterLines_sticky(ls, i+1, TRUE)
    ELSE IF Contains(ls[i], ENOUGH_MARKER_END) THEN FilterLines_sticky(ls, i+1, in_block)
    ELSE IF ~in_block THEN <<ls[i]>> \o FilterLines_sticky(ls, i+1, in_block)
    ELSE FilterLines_sticky(ls, i+1, in_block)

\* the loop of remove_existing_blocks, from line i on, with the flag in_block
RECURSIVE FilterLines(_, _, _)
FilterLines(ls, i, in_block) ==
    IF i > Len(ls) THEN <<>>
    ELSE IF Contains(ls[i], ENOUGH_MARKER_START) THEN FilterLines(ls, i+1, TRUE)
    ELSE IF Contains(ls[i], ENOUGH_MARKER_END) THEN FilterLines(ls, i+1, FALSE)
    ELSE IF ~in_block THEN <<ls[i]>> \o FilterLines(ls, i+1, in_block)
    ELSE FilterLines(ls, i+1, in_block)

\* BlockManager::remove_existing_blocks with every line kept
remove_existing_blocks_keeping(content) == Join(Lines(content))

remove_existing_blocks(content) == Join(FilterLines(Lines(content), 1, FALSE))

----------------------------------------------------------------------------
(* Websites and profiles *)

Url(h) == [scheme |-> "https", host |-> h]

\* Url::host_str: the host of a validated website (config.rs validate_website)
host_str(url) == url.host

\* str::trim_start_matches("www."): every leading "www." is removed
RECURSIVE trim_start_matches(_)
trim_start_matches(host) ==
    IF host # <<>> /\ Head(host) = WWW THEN trim_start_matches(Tail(host))
    ELSE host

DenialPair(name) == <<IPV4>> \o name \o <<NL>> \o <<IPV6>> \o name \o <<NL>>

\* the body of the loop over websites in block_websites
host_entries(host) ==
    DenialPair(host) \o
    (IF ~Contains(host, WWW)
        THEN DenialPair(<<WWW>> \o host)
        ELSE DenialPair(trim_start_matches(host)))

RECURSIVE website_entries(_)
website_entries(websites) ==
    IF websites = <<>> THEN <<>>
    ELSE host_entries(host_str(Head(websites))) \o website_entries(Tail(websites))

\* what block_websites appends to the cleaned content
block_region(websites) ==
    <<NL, NL, ENOUGH_MARKER_START, NL>> \o website_entries(websites)
        \o <<ENOUGH_MARKER_END, NL, NL>>

\* the durations a block is asked for: some seconds, over a day
Durations == {TicksPerSec + 1, DayTicks + TicksPerSec}

\* the profiles of the configuration file
Config ==
    [a |-> [duration |-> TicksPerSec + 1, websites |-> <<Url(<<"a">>)>>],
     c |-> [duration |-> DayTicks + TicksPerSec, websites |-> <<>>]]

ProfileNames == DOMAIN Config

----------------------------------------------------------------------------
(* The files and the service manager, as one value *)

NoRec == [profile_name |-> "", profile |-> [duration |-> 0, websites |-> <<>>],
          unblock_time_secs |-> -1]
NoId == 0

Ids == 1..MaxIds

FS == [hosts |-> hosts, dir |-> stateDir, state |-> stateFile, id |-> daemonId,
       home |-> homeFile, plists |-> plists, loaded |-> loaded, due |-> due]

Ok(f) == [fs |-> f, res |-> "ok"]
Err(f, why) == [fs |-> f, res |-> why]

\* SystemTime -> whole seconds since the epoch (Duration::as_secs)
as_secs(t) == t \div TicksPerSec
\* UNIX_EPOCH + Duration::from_secs
from_secs(s) == s * TicksPerSec
\* DateTime::hour(), minute(), second(): the second of the day, the date dropped
SecondOfDay(t) == as_secs(t) % DaySecs

----------------------------------------------------------------------------
(* src/src/block.rs and src/src/daemon/macos.rs.  Each operation takes the  *)
(* files as they are and the outcomes of the commands it runs (env), and    *)
(* gives the files as it leaves them and what it returns.                   *)

AllGood == [flush |-> TRUE,    \* dscacheutil -flushcache in unblock_websites
            unload |-> TRUE,   \* launchctl unload
            note |-> TRUE,     \* File::create("~/Downloads/daemon_unloaded")
            flush2 |-> TRUE,   \* dscacheutil -flushcache in block_websites
            load |-> TRUE]     \* launchctl load

\* The outcomes of the external commands of one operation.  Every failure
\* ends the operation that meets it, so what an operation does is decided by
\* the first command that fails: the outcomes with at most one failure give
\* every behaviour.
UnblockEnvs == {AllGood, [AllGood EXCEPT !.flush = FALSE],
                [AllGood EXCEPT !.unload = FALSE], [AllGood EXCEPT !.note = FALSE]}
Envs == UnblockEnvs \cup {[AllGood EXCEPT !.flush2 = FALSE],
                          [AllGood EXCEPT !.load = FALSE]}

\* the outcomes among S of the commands that can run at all: remove() runs
\* launchctl unload only with an identifier persisted, block_items flushes a
\* second time only for a profile with websites
Relevant(S, f, websites) ==
    {e \in S : /\ (f.id = NoId => e.unload /\ e.note)
               /\ (websites = <<>> => e.flush2)}

PlistOf(f, id) == {p \in f.plists : p.id = id}

\* BlockManager::unblock_websites with a hosts file left unwritten
unblock_websites_nowrite(f, env) ==
    IF env.flush THEN Ok(f) ELSE Err(f, "flush")

\* BlockManager::unblock_websites
unblock_websites(f, env) ==
    LET f1 == [f EXCEPT !.hosts = remove_existing_blocks(f.hosts)]
    IN IF env.flush THEN Ok(f1) ELSE Err(f1, "flush")

\* LaunchDaemon::remove without the test of DAEMON_ID_PATH
remove_unconditional(f, env) ==
    IF ~env.unload THEN Err(f, "launchctl unload")
    ELSE Ok([f EXCEPT !.id = NoId, !.state = NoRec, !.home = FALSE,
                      !.loaded = {}, !.plists = {}])

\* LaunchDaemon::remove
remove(f, env) ==
    IF f.id = NoId THEN Ok(f)
    ELSE IF ~f.home THEN Err(f, "read home_dir")
    ELSE
      LET id == f.id
          f1 == [f EXCEPT !.id = NoId]
          f2 == [f1 EXCEPT !.state = NoRec]
          f3 == [f2 EXCEPT !.home = FALSE]
          f4 == [f3 EXCEPT !.loaded = @ \ {id}]
          f5 == [f4 EXCEPT !.plists = @ \ PlistOf(f4, id)]
      IN IF f.state = NoRec THEN Err(f1, "remove current_block.yaml")
         ELSE IF ~env.unload THEN Err(f3, "launchctl unload")
         ELSE IF ~env.note THEN Err(f4, "create daemon_unloaded")
         ELSE IF PlistOf(f4, id) = {} THEN Err(f4, "remove plist")
         ELSE Ok(f5)

\* fs::remove_dir_all(state_dir) removing the directory entry alone
remove_dir_all_shallow(f) ==
    IF ~f.dir THEN Err(f, "remove_dir_all")
    ELSE Ok([f EXCEPT !.dir = FALSE])

\* fs::remove_dir_all(state_dir)
remove_dir_all(f) ==
    IF ~f.dir THEN Err(f, "remove_dir_all")
    ELSE Ok([f EXCEPT !.dir = FALSE, !.state = NoRec, !.id = NoId,
                      !.home = FALSE])

\* BlockManager::unblock_all
unblock_all(f, env) ==
    LET r1 == unblock_websites(f, env)
        r2 == remove(r1.fs, env)
    IN IF r1.res # "ok" THEN r1
       ELSE IF r2.res # "ok" THEN r2
       ELSE remove_dir_all(r2.fs)

\* BlockManager::block_websites writing the cleaned content without a region
block_websites_cleaning_only(f, websites, env) ==
    LET cleaned_content == remove_existing_blocks(f.hosts)
        f1 == [f EXCEPT !.hosts = cleaned_content]
    IN IF env.flush2 THEN Ok(f1) ELSE Err(f1, "flush after block")

\* BlockManager::block_websites
block_websites(f, websites, env) ==
    LET cleaned_content == remove_existing_blocks(f.hosts)
        f1 == [f EXCEPT !.hosts = cleaned_content \o block_region(websites)]
    IN IF env.flush2 THEN Ok(f1) ELSE Err(f1, "flush after block")

\* LaunchDaemon::schedule with the identifier persisted before the unit is
\* registered
schedule_persisting_first(f, unblock_time, now, id, env) ==
    LET f1 == [f EXCEPT !.plists = @ \cup {[id |-> id, sec |-> SecondOfDay(unblock_time)]},
                        !.due = @ \cup {[id |-> id, at |-> unblock_time, since |-> now]},
                        !.dir = TRUE, !.id = id, !.home = TRUE]
        f2 == [f1 EXCEPT !.loaded = @ \cup {id}]
    IN IF ~env.load THEN Err(f1, "launchctl load") ELSE Ok(f2)

\* LaunchDaemon::schedule, run at time now, with id the fresh Uuid
schedule(f, unblock_time, now, id, env) ==
    LET f1 == [f EXCEPT !.plists = @ \cup {[id |-> id, sec |-> SecondOfDay(unblock_time)]},
                        !.due = @ \cup {[id |-> id, at |-> unblock_time, since |-> now]}]
        f2 == [f1 EXCEPT !.loaded = @ \cup {id}]
        f3 == [f2 EXCEPT !.dir = TRUE, !.id = id, !.home = TRUE]
    IN IF ~env.load THEN Err(f1, "launchctl load") ELSE Ok(f3)

\* BlockManager::save_block_state with the seconds rounded up
save_block_state_rounded(f, profile_name, profile, unblock_time) ==
    IF ~f.dir THEN Err(f, "write current_block.yaml")
    ELSE Ok([f EXCEPT !.state = [profile_name |-> profile_name,
                                 profile |-> profile,
                                 unblock_time_secs |->
                                     (unblock_time + TicksPerSec - 1) \div TicksPerSec]])

\* BlockManager::save_block_state
save_block_state(f, profile_name, profile, unblock_time) ==
    IF ~f.dir THEN Err(f, "write current_block.yaml")
    ELSE Ok([f EXCEPT !.state = [profile_name |-> profile_name,
                                 profile |-> profile,
                                 unblock_time_secs |-> as_secs(unblock_time)]])

\* BlockManager::block_items with the unit scheduled before the hosts file
\* is written
block_items_scheduling_first(f, profile_name, profile, duration, now, id, env) ==
    LET f0 == [f EXCEPT !.dir = TRUE]
        r1 == unblock_all(f0, env)
        unblock_time == now + duration
        r2 == schedule(r1.fs, unblock_time, now, id, env)
        r3 == IF profile.websites # <<>>
                 THEN block_websites(r2.fs, profile.websites, env)
                 ELSE Ok(r2.fs)
    IN IF r1.res # "ok" THEN r1
       ELSE IF r2.res # "ok" THEN r2
       ELSE IF r3.res # "ok" THEN r3
       ELSE save_block_state(r3.fs, profile_name, profile, unblock_time)

\* BlockManager::block_items with the state record saved before the unit is
\* scheduled
block_items_saving_first(f, profile_name, profile, duration, now, id, env) ==
    LET f0 == [f EXCEPT !.dir = TRUE]
        r1 == unblock_all(f0, env)
        r2 == IF profile.websites # <<>>
                 THEN block_websites(r1.fs, profile.websites, env)
                 ELSE Ok(r1.fs)
        unblock_time == now + duration
        r3 == save_block_state([r2.fs EXCEPT !.dir = TRUE], profile_name, profile,
                               unblock_time)
        r4 == schedule(r3.fs, unblock_time, now, id, env)
    IN IF r1.res # "ok" THEN r1
       ELSE IF r2.res # "ok" THEN r2
       ELSE IF r3.res # "ok" THEN r3
       ELSE r4

\* BlockManager::block_items returning after the clean-up when the profile
\* has no website
block_items_skipping_empty(f, profile_name, profile, duration, now, id, env) ==
    LET f0 == [f EXCEPT !.dir = TRUE]
        r1 == unblock_all(f0, env)
        r2 == block_websites(r1.fs, profile.websites, env)
        unblock_time == now + duration
        r3 == schedule(r2.fs, unblock_time, now, id, env)
    IN IF r1.res # "ok" THEN r1
       ELSE IF profile.websites = <<>> THEN Ok(r1.fs)
       ELSE IF r2.res # "ok" THEN r2
       ELSE IF r3.res # "ok" THEN r3
       ELSE save_block_state(r3.fs, profile_name, profile, unblock_time)

\* BlockManager::block_items at time now, with id the Uuid schedule draws
block_items(f, profile_name, profile, duration, now, id, env) ==
    LET f0 == [f EXCEPT !.dir = TRUE]
        r1 == unblock_all(f0, env)
        r2 == IF profile.websites # <<>>
                 THEN block_websites(r1.fs, profile.websites, env)
                 ELSE Ok(r1.fs)
        unblock_time == now + duration
        r3 == schedule(r2.fs, unblock_time, now, id, env)
    IN IF r1.res # "ok" THEN r1
       ELSE IF r2.res # "ok" THEN r2
       ELSE IF r3.res # "ok" THEN r3
       ELSE save_block_state(r3.fs, profile_name, profile, unblock_time)

Unblocked == [kind |-> "Unblocked", profile_name |-> "", unblock_time |-> 0]
Blocked(name, t) == [kind |-> "Blocked", profile_name |-> name, unblock_time |-> t]

\* BlockManager::get_status reporting Unblocked once the stored time is over
get_status_expiring(f, now, print) ==
    IF f.state = NoRec THEN [fs |-> f, res |-> "ok", status |-> Unblocked]
    ELSE IF now >= from_secs(f.state.unblock_time_secs)
         THEN [fs |-> f, res |-> "ok", status |-> Unblocked]
    ELSE [fs |-> f, res |-> "ok",
          status |-> Blocked(f.state.profile_name,
                             from_secs(f.state.unblock_time_secs))]

\* BlockManager::get_status ending the block itself once the stored time is over
get_status_unblocking(f, now, print) ==
    IF f.state = NoRec THEN [fs |-> f, res |-> "ok", status |-> Unblocked]
    ELSE IF now >= from_secs(f.state.unblock_time_secs)
         THEN [fs |-> unblock_all(f, AllGood).fs, res |-> "ok",
               status |-> Blocked(f.state.profile_name,
                                  from_secs(f.state.unblock_time_secs))]
    ELSE [fs |-> f, res |-> "ok",
          status |-> Blocked(f.state.profile_name,
                             from_secs(f.state.unblock_time_secs))]

\* BlockManager::get_status
get_status(f, now, print) ==
    IF f.state = NoRec THEN [fs |-> f, res |-> "ok", status |-> Unblocked]
    ELSE [fs |-> f, res |-> "ok",
          status |-> Blocked(f.state.profile_name,
                             from_secs(f.state.unblock_time_secs))]

is_blocked(status) == status.kind = "Blocked"

----------------------------------------------------------------------------
(* src/src/cli.rs: EnoughOptions::parse *)

NoDuration == 0

\* Self::Block without the check of the status
cmd_block_unchecked(f, sudo, profile_name, duration, now, id, env) ==
    LET profile == Config[profile_name]
        d == IF duration = NoDuration THEN profile.duration ELSE duration
    IN IF ~sudo THEN Err(f, "sudo")
       ELSE block_items(f, profile_name, profile, d, now, id, env)

\* Self::Block
cmd_block(f, sudo, profile_name, duration, now, id, env) ==
    LET st == get_status(f, now, FALSE)
        profile == Config[profile_name]
        d == IF duration = NoDuration THEN profile.duration ELSE duration
    IN IF ~sudo THEN Err(f, "sudo")
       ELSE IF is_blocked(st.status) THEN Err(st.fs, "already active")
       ELSE block_items(st.fs, profile_name, profile, d, now, id, env)

\* Self::Unblock without the check of SUDO_USER
cmd_unblock_unguarded(f, sudo, fix, env) ==
    IF fix THEN unblock_all(f, env)
    ELSE Err(f, "not fix")

\* Self::Unblock
cmd_unblock(f, sudo, fix, env) ==
    IF ~sudo THEN Err(f, "sudo")
    ELSE IF fix THEN unblock_all(f, env)
    ELSE Err(f, "not fix")

StatusModes == {"json", "line", "print"}

\* Self::Status
cmd_status(f, mode, now) ==
    IF mode = "json" THEN get_status(f, now, FALSE)
    ELSE IF mode = "line" THEN get_status(f, now, FALSE)
    ELSE get_status(f, now, TRUE)

----------------------------------------------------------------------------
(* The state machine *)

NoPure == [pc |-> "off", orig |-> <<>>, prev |-> <<>>, sites |-> <<>>]

\* the two processes of the race: the unit launchd runs and the block command
Procs == {"callback", "command"}

NoRace == [pc |-> [p \in Procs |-> "off"], buf |-> [p \in Procs |-> <<>>],
           id |-> [p \in Procs |-> NoId], name |-> "", late |-> FALSE]

InitHosts == {<<"u", NL>>}

Init ==
    /\ clock = 0
    /\ hosts \in InitHosts
    /\ stateDir = FALSE
    /\ stateFile = NoRec
    /\ daemonId = NoId
    /\ homeFile = FALSE
    /\ plists = {}
    /\ loaded = {}
    /\ due = {}
    /\ nextId = 1
    /\ last = [op |-> "init", res |-> "ok", status |-> Unblocked, name |-> "",
               dur |-> 0, id |-> NoId]
    /\ pure = NoPure
    /\ race = NoRace

\* the operation left the files as f; calls: it called block_items
Leaves(f, calls) ==
    /\ hosts' = f.hosts
    /\ stateDir' = f.dir
    /\ stateFile' = f.state
    /\ daemonId' = f.id
    /\ homeFile' = f.home
    /\ plists' = f.plists
    /\ loaded' = f.loaded
    /\ due' = {q \in f.due : q.id \in f.loaded}
    /\ nextId' = IF calls THEN nextId + 1 ELSE nextId

\* last names the innermost operation of the library that ran (block_items,
\* unblock_all, get_status), or the command that ended before it ran one
Did(op, res, status, name, dur, id) ==
    last' = [op |-> op, res |-> res, status |-> status, name |-> name,
             dur |-> dur, id |-> id]

Gate(res) == res \in {"sudo", "already active", "not fix"}

Tick ==
    /\ clock < MaxClock
    /\ clock' = clock + 1
    /\ UNCHANGED <<hosts, stateDir, stateFile, daemonId, homeFile, plists,
                   loaded, due, nextId, last, pure, race>>

\* The model stops starting blocks when the identifiers are used up: every
\* call of block_items takes one, also a call that ends before schedule.
CanBlock == nextId <= MaxIds

\* a caller of the library starts a block
BlockItems ==
    /\ CanBlock
    /\ \E name \in ProfileNames, d \in Durations :
       \E env \in Relevant(Envs, FS, Config[name].websites) :
         \E r \in {block_items(FS, name, Config[name], d, clock, nextId, env)} :
            Leaves(r.fs, TRUE) /\ Did("block_items", r.res, Unblocked, name, d, NoId)
    /\ UNCHANGED <<clock, pure, race>>

\* the user runs `enough block`; a command that ends at its gate reads
\* neither the profile nor the duration
CmdBlock ==
    /\ CanBlock
    /\ \E sudo \in BOOLEAN :
       \E name \in IF sudo /\ stateFile = NoRec THEN ProfileNames ELSE {"a"} :
       \E d \in IF sudo /\ stateFile = NoRec
                   THEN {NoDuration} \cup (Durations \ {Config[name].duration})
                   ELSE {NoDuration} :
       \E env \in IF sudo /\ stateFile = NoRec
                     THEN Relevant(Envs, FS, Config[name].websites)
                     ELSE {AllGood} :
         \E r \in {cmd_block(FS, sudo, name, d, clock, nextId, env)} :
            /\ Leaves(r.fs, ~Gate(r.res))
            /\ IF Gate(r.res)
                  THEN Did("cmd_block", r.res, Unblocked, "", 0, NoId)
                  ELSE Did("block_items", r.res, Unblocked, name,
                           IF d = NoDuration THEN Config[name].duration ELSE d,
                           NoId)
    /\ UNCHANGED <<clock, pure, race>>

\* the user runs the hidden command by hand
CmdUnblock ==
    /\ \E sudo \in BOOLEAN, fix \in BOOLEAN :
       \E env \in IF sudo /\ fix THEN Relevant(UnblockEnvs, FS, <<>>) ELSE {AllGood} :
         \E r \in {cmd_unblock(FS, sudo, fix, env)} :
            /\ Leaves(r.fs, FALSE)
            /\ IF Gate(r.res)
                  THEN Did("cmd_unblock", r.res, Unblocked, "", 0, NoId)
                  ELSE Did("unblock_all", r.res, Unblocked, "", 0, NoId)
    /\ UNCHANGED <<clock, pure, race>>

\* launchd: a registered unit is due when a second of the day begins that its
\* StartCalendarInterval names, after the unit was registered
IsDue(p) ==
    /\ p.id \in loaded
    /\ clock % TicksPerSec = 0
    /\ SecondOfDay(clock) = p.sec
    /\ \A q \in due : q.id = p.id => clock > q.since

\* launchd runs the unit: sudo <exe> ___zzzunblock --fix
Fire ==
    /\ \E p \in plists :
       \E env \in Relevant(UnblockEnvs, FS, <<>>) :
         /\ IsDue(p)
         /\ \E r \in {cmd_unblock(FS, TRUE, TRUE, env)} :
               Leaves(r.fs, FALSE) /\ Did("unblock_all", r.res, Unblocked, "", 0, p.id)
    /\ UNCHANGED <<clock, pure, race>>

\* the user runs `enough status`
CmdStatus ==
    /\ \E mode \in StatusModes :
         \E r \in {cmd_status(FS, mode, clock)} :
            Leaves(r.fs, FALSE) /\ Did("get_status", r.res, r.status, "", 0, NoId)
    /\ UNCHANGED <<clock, pure, race>>

Next ==
    \/ Tick
    \/ BlockItems
    \/ CmdBlock
    \/ CmdUnblock
    \/ Fire
    \/ CmdStatus

Spec == Init /\ [][Next]_vars

----------------------------------------------------------------------------
(* The text functions on their own: the hosts file starts as any content   *)
(* of at most MaxLen atoms, and block_websites, unblock_websites and       *)
(* remove_existing_blocks are applied to it.                               *)

Atoms == {"u", NL, ENOUGH_MARKER_START, ENOUGH_MARKER_END}

Contents == UNION {[1..n -> Atoms] : n \in 0..MaxLen}

\* hosts: "a", "www.a", "mywww.a", "www.www.a"
PureHosts == {<<"a">>, <<WWW, "a">>, <<"my", WWW, "a">>, <<WWW, WWW, "a">>}

SiteLists == {<<>>} \cup {<<Url(h)>> : h \in PureHosts}
                    \cup {<<Url(g), Url(h)>> : g, h \in PureHosts}

PureInit ==
    /\ clock = 0
    /\ hosts \in Contents
    /\ stateDir = FALSE
    /\ stateFile = NoRec
    /\ daemonId = NoId
    /\ homeFile = FALSE
    /\ plists = {}
    /\ loaded = {}
    /\ due = {}
    /\ nextId = 1
    /\ last = [op |-> "init", res |-> "ok", status |-> Unblocked, name |-> "",
               dur |-> 0, id |-> NoId]
    /\ pure = [pc |-> "start", orig |-> hosts, prev |-> hosts, sites |-> <<>>]
    /\ race = NoRace

PureFrame == UNCHANGED <<clock, stateDir, stateFile, daemonId, homeFile,
                         plists, loaded, due, nextId, last, race>>

\* apply(W)
PureApply ==
    /\ pure.pc = "start"
    /\ \E W \in SiteLists \ {<<>>} :
         /\ hosts' = block_websites(FS, W, AllGood).fs.hosts
         /\ pure' = [pure EXCEPT !.pc = "applied", !.prev = hosts, !.sites = W]
    /\ PureFrame

\* revert()
PureRevert ==
    /\ pure.pc \in {"start", "applied"}
    /\ hosts' = unblock_websites(FS, AllGood).fs.hosts
    /\ pure' = [pure EXCEPT !.pc = IF pure.pc = "start" THEN "reverted0" ELSE "reverted",
                            !.prev = hosts]
    /\ PureFrame

\* remove_existing_blocks, once and once more
PureRemove ==
    /\ pure.pc \in {"start", "removed"}
    /\ hosts' = remove_existing_blocks(hosts)
    /\ pure' = [pure EXCEPT !.pc = IF pure.pc = "start" THEN "removed" ELSE "removed2",
                            !.prev = hosts]
    /\ PureFrame

PureNext == PureApply \/ PureRevert \/ PureRemove

SpecPure == PureInit /\ [][PureNext]_vars

----------------------------------------------------------------------------
(* The unit fires while the user runs `enough block`.  Two processes run   *)
(* the code of unblock_all and of the block command one file operation or  *)
(* one command at a time; every command succeeds, and a file operation    *)
(* fails when its file or directory is missing.  A step that fails ends   *)
(* its process, as every step of the code is chained with `?`.            *)

\* the position a process moves to, the files it leaves, and its locals:
\* buf is the content it read from the hosts file, id the identifier
\* remove() read
Go(pc, f, buf, id) == [pc |-> pc, fs |-> f, buf |-> buf, id |-> id]

UnblockAllSteps == {"unblock_read", "unblock_write", "exists", "read_id",
                    "read_home", "rm_id", "rm_state", "rm_home", "unload",
                    "note", "rm_plist", "remove_dir_all"}

\* one step of BlockManager::unblock_all; "return" when it returns Ok
unblock_all_step(pc, f, buf, id) ==
    CASE pc = "unblock_read" -> Go("unblock_write", f, f.hosts, id)
      [] pc = "unblock_write" ->
            Go("exists", [f EXCEPT !.hosts = remove_existing_blocks(buf)], buf, id)
      [] pc = "exists" ->
            IF f.id = NoId THEN Go("remove_dir_all", f, buf, id)
            ELSE Go("read_id", f, buf, id)
      [] pc = "read_id" ->
            IF f.id = NoId THEN Go("failed", f, buf, id)
            ELSE Go("read_home", f, buf, f.id)
      [] pc = "read_home" ->
            IF ~f.home THEN Go("failed", f, buf, id) ELSE Go("rm_id", f, buf, id)
      [] pc = "rm_id" ->
            IF f.id = NoId THEN Go("failed", f, buf, id)
            ELSE Go("rm_state", [f EXCEPT !.id = NoId], buf, id)
      [] pc = "rm_state" ->
            IF f.state = NoRec THEN Go("failed", f, buf, id)
            ELSE Go("rm_home", [f EXCEPT !.state = NoRec], buf, id)
      [] pc = "rm_home" ->
            IF ~f.home THEN Go("failed", f, buf, id)
            ELSE Go("unload", [f EXCEPT !.home = FALSE], buf, id)
      [] pc = "unload" -> Go("note", [f EXCEPT !.loaded = @ \ {id}], buf, id)
      [] pc = "note" -> Go("rm_plist", f, buf, id)
      [] pc = "rm_plist" ->
            IF PlistOf(f, id) = {} THEN Go("failed", f, buf, id)
            ELSE Go("remove_dir_all", [f EXCEPT !.plists = @ \ PlistOf(f, id)], buf, id)
      [] pc = "remove_dir_all" ->
            LET r == remove_dir_all(f)
            IN Go(IF r.res = "ok" THEN "return" ELSE "failed", r.fs, buf, id)

\* the block command was started for a profile with its own duration, at
\* the time the unit of the active block fired
RaceInit ==
    /\ \E f \in {block_items([hosts |-> h, dir |-> FALSE, state |-> NoRec,
                               id |-> NoId, home |-> FALSE, plists |-> {},
                               loaded |-> {}, due |-> {}],
                              "a", Config["a"], Config["a"].duration, 0, 1,
                              AllGood).fs : h \in InitHosts} :
          /\ hosts = f.hosts
          /\ stateDir = f.dir
          /\ stateFile = f.state
          /\ daemonId = f.id
          /\ homeFile = f.home
          /\ plists = f.plists
          /\ loaded = f.loaded
          /\ due = f.due
    /\ nextId = 2
    /\ clock \in {c \in 1..MaxClock : c % TicksPerSec = 0
                                      /\ SecondOfDay(c) = SecondOfDay(Config["a"].duration)}
    /\ last = [op |-> "block_items", res |-> "ok", status |-> Unblocked,
               name |-> "a", dur |-> Config["a"].duration, id |-> NoId]
    /\ pure = NoPure
    /\ \E name \in ProfileNames :
          race = [NoRace EXCEPT !.pc = [callback |-> "unblock_read", command |-> "gate"],
                                !.name = name]

RaceFrame == UNCHANGED <<clock, last, pure>>

\* process p moves to r.pc with the files and locals of r
Moves(p, r, pc) ==
    /\ Leaves(r.fs, FALSE)
    /\ race' = [race EXCEPT !.pc[p] = pc, !.buf[p] = r.buf, !.id[p] = r.id,
                            !.late = IF p = "callback" /\ race.pc[p] = "remove_dir_all"
                                        THEN race.pc["command"] = "done" ELSE @]

\* the unit launchd started: unblock --fix, one step of unblock_all
CallbackStep ==
    /\ race.pc["callback"] \in UnblockAllSteps
    /\ \E r \in {unblock_all_step(race.pc["callback"], FS, race.buf["callback"],
                                   race.id["callback"])} :
          Moves("callback", r, IF r.pc = "return" THEN "done" ELSE r.pc)
    /\ RaceFrame

\* Self::Block: is_sudo, then get_status must not report a block
CommandGate ==
    /\ race.pc["command"] = "gate"
    /\ \E st \in {get_status(FS, clock, FALSE)} :
          Moves("command", Go("", st.fs, <<>>, NoId),
                IF is_blocked(st.status) THEN "failed" ELSE "create_dir_all")
    /\ RaceFrame

\* block_items: create_dir_all, then one step of unblock_all
CommandCleanup ==
    /\ race.pc["command"] \in {"create_dir_all"} \cup UnblockAllSteps
    /\ \E r \in {IF race.pc["command"] = "create_dir_all"
                     THEN Go("unblock_read", [FS EXCEPT !.dir = TRUE], <<>>, NoId)
                     ELSE unblock_all_step(race.pc["command"], FS, race.buf["command"],
                                           race.id["command"])} :
          Moves("command", r,
                IF r.pc # "return" THEN r.pc
                ELSE IF Config[race.name].websites # <<>> THEN "block_read"
                ELSE "write_plist")
    /\ RaceFrame

\* block_websites: read the hosts file, then write it with the region
CommandBlockWebsites ==
    /\ race.pc["command"] \in {"block_read", "block_write"}
    /\ \E r \in {IF race.pc["command"] = "block_read"
                     THEN Go("block_write", FS, hosts, race.id["command"])
                     ELSE Go("write_plist",
                             [FS EXCEPT !.hosts = remove_existing_blocks(race.buf["command"])
                                                  \o block_region(Config[race.name].websites)],
                             race.buf["command"], race.id["command"])} :
          Moves("command", r, r.pc)
    /\ RaceFrame

\* the unblock time block_items computes
RaceUnblockTime == clock + Config[race.name].duration

\* LaunchDaemon::schedule: write the plist, launchctl load, create_dir_all,
\* write daemon_id, write home_dir
CommandSchedule ==
    /\ race.pc["command"] \in {"write_plist", "load", "mkdir", "write_id", "write_home"}
    /\ \E r \in {
          CASE race.pc["command"] = "write_plist" ->
                  Go("load", [FS EXCEPT !.plists = @ \cup
                                 {[id |-> nextId, sec |-> SecondOfDay(RaceUnblockTime)]}],
                     <<>>, NoId)
            [] race.pc["command"] = "load" ->
                  Go("mkdir", [FS EXCEPT !.loaded = @ \cup {nextId},
                                         !.due = @ \cup {[id |-> nextId, at |-> RaceUnblockTime,
                                                          since |-> clock]}],
                     <<>>, NoId)
            [] race.pc["command"] = "mkdir" ->
                  Go("write_id", [FS EXCEPT !.dir = TRUE], <<>>, NoId)
            [] race.pc["command"] = "write_id" ->
                  IF ~stateDir THEN Go("failed", FS, <<>>, NoId)
                  ELSE Go("write_home", [FS EXCEPT !.id = nextId], <<>>, NoId)
            [] race.pc["command"] = "write_home" ->
                  IF ~stateDir THEN Go("failed", FS, <<>>, NoId)
                  ELSE Go("save", [FS EXCEPT !.home = TRUE], <<>>, NoId)} :
          Moves("command", r, r.pc)
    /\ RaceFrame

\* save_block_state, the last step of block_items
CommandSave ==
    /\ race.pc["command"] = "save"
    /\ \E r \in {save_block_state(FS, race.name, Config[race.name], RaceUnblockTime)} :
          Moves("command", Go("", r.fs, <<>>, NoId),
                IF r.res = "ok" THEN "done" ELSE "failed")
    /\ RaceFrame

RaceNext ==
    \/ CallbackStep
    \/ CommandGate
    \/ CommandCleanup
    \/ CommandBlockWebsites
    \/ CommandSchedule
    \/ CommandSave

SpecRace == RaceInit /\ [][RaceNext]_vars

----------------------------------------------------------------------------
(* Reading a hosts file *)

IsMarkerLine(line) ==
    Contains(line, ENOUGH_MARKER_START) \/ Contains(line, ENOUGH_MARKER_END)

\* no line of the content holds a marker
MarkerFree(content) == \A i \in 1..Len(content) :
    content[i] \notin {ENOUGH_MARKER_START, ENOUGH_MARKER_END}

HasRegion(content) == ~MarkerFree(content)

\* the lines after the last start marker line and before the end marker line
\* that follows it
RegionLines(content) ==
    LET ls == SplitNL(content)
        starts == {i \in 1..Len(ls) : Contains(ls[i], ENOUGH_MARKER_START)}
        s == CHOOSE i \in starts : \A j \in starts : j <= i
        ends == {i \in (s+1)..Len(ls) : Contains(ls[i], ENOUGH_MARKER_END)}
        e == CHOOSE i \in ends : \A j \in ends : i <= j
    IN IF starts = {} \/ ends = {} THEN <<>> ELSE SubSeq(ls, s+1, e-1)

StartsWithWww(host) == host # <<>> /\ Head(host) = WWW

\* the other name form of a host
Counterpart(host) == IF StartsWithWww(host) THEN Tail(host) ELSE <<WWW>> \o host

RECURSIVE SymmetricLines(_)
SymmetricLines(websites) ==
    IF websites = <<>> THEN <<>>
    ELSE LET h == Head(websites).host
         IN << <<IPV4>> \o h, <<IPV6>> \o h,
               <<IPV4>> \o Counterpart(h), <<IPV6>> \o Counterpart(h) >>
            \o SymmetricLines(Tail(websites))

----------------------------------------------------------------------------
(* Claims *)

\* a step of Fire: launchd ran the unit last'.id
FireStep == last'.op = "unblock_all" /\ last'.id # NoId /\ clock' = clock

\* a marker is one atom and a line holds it at most once: the lines that hold
\* the marker are as many as its occurrences
StartLines(content) ==
    Cardinality({i \in 1..Len(content) : content[i] = ENOUGH_MARKER_START})
EndLines(content) ==
    Cardinality({i \in 1..Len(content) : content[i] = ENOUGH_MARKER_END})

\* C1: after unblock_all() has returned Ok, no state record exists
\* (get_status reports Unblocked), the hosts file has no line with the start
\* or the end marker, and no daemon identifier is persisted.
C1_UnblockClearsEverything ==
    (last.op = "unblock_all" /\ last.res = "ok") =>
        /\ stateFile = NoRec
        /\ get_status(FS, clock, FALSE).status = Unblocked
        /\ MarkerFree(hosts)
        /\ daemonId = NoId

\* a unit that launchd ran, whose callback returned Ok and unregistered it
C1_Witness ==
    /\ last.op = "unblock_all" /\ last.res = "ok"
    /\ last.id # NoId /\ last.id \notin loaded
    /\ \A p \in plists : p.id # last.id

\* C2: a block_items(name, profile, d) that returns Ok leaves exactly the
\* record (name, profile, now + d in whole seconds), the identifier it drew,
\* and in the hosts file the region of this profile alone (none for a
\* profile without websites): an earlier block is superseded, not merged.
C2_OneRecord ==
    [][(last'.op = "block_items" /\ last'.res = "ok" /\ clock' = clock) =>
          /\ stateFile' = [profile_name |-> last'.name,
                           profile |-> Config[last'.name],
                           unblock_time_secs |-> (clock + last'.dur) \div TicksPerSec]
          /\ daemonId' = nextId
          /\ LET n == IF Config[last'.name].websites = <<>> THEN 0 ELSE 1
             IN StartLines(hosts') = n /\ EndLines(hosts') = n
          /\ RegionLines(hosts') = SymmetricLines(Config[last'.name].websites)
      ]_vars

\* the second block_items returned Ok, for the profile without websites, and
\* the unit of the first is gone
C2_Witness ==
    /\ last.op = "block_items" /\ last.res = "ok" /\ last.name = "c"
    /\ nextId = 3
    /\ daemonId = 2
    /\ \A p \in plists : p.id = 2
    /\ hosts = <<"u", NL, NL>>

\* C3: once block_items has succeeded with a profile of at least one website,
\* after the scheduled unit has fired and its callback has run the hosts file
\* holds no block region and no state record exists.
C3_FiredUnitLiftsBlock ==
    [][(/\ FireStep
        /\ daemonId = last'.id
        /\ stateFile # NoRec
        /\ stateFile.profile.websites # <<>>) =>
          (MarkerFree(hosts') /\ stateFile' = NoRec)]_vars

\* C4: the unit installed by schedule(t + d) fires in the second of t + d,
\* never in an earlier one, for every duration d.
C4_FiresAtUnblockTime ==
    [][FireStep =>
          \A q \in due : q.id = last'.id =>
              clock \div TicksPerSec = q.at \div TicksPerSec]_vars

\* C5: get_status changes nothing: hosts file, state directory, state record,
\* daemon identifier, unit files and registered units are as before.
C5_StatusChangesNothing ==
    [][(last'.op = "get_status" /\ clock' = clock) => UNCHANGED fsvars]_vars

\* the status of a block was asked for
C5_Witness ==
    /\ last.op = "get_status" /\ last.status.kind = "Blocked"
    /\ MarkerFree(hosts) = FALSE
    /\ daemonId # NoId

\* C6: get_status reports Blocked with the stored name and time exactly when
\* a state record exists, and Unblocked without error exactly when none does,
\* whatever the clock says.
C6_StatusFollowsRecord ==
    last.op = "get_status" =>
        /\ last.res = "ok"
        /\ stateFile = NoRec => last.status = Unblocked
        /\ stateFile # NoRec =>
              last.status = [kind |-> "Blocked",
                             profile_name |-> stateFile.profile_name,
                             unblock_time |-> stateFile.unblock_time_secs * TicksPerSec]

\* Blocked was reported and the stored time is over
C6_Witness ==
    /\ last.op = "get_status" /\ last.status.kind = "Blocked"
    /\ clock > last.status.unblock_time

\* C7: the block command ends with an error whenever a state record exists
\* (get_status reports Blocked), whatever the clock says, and then changes
\* nothing.
C7_BlockRejectedWhileBlocked ==
    [][(stateFile # NoRec /\ CmdBlock) =>
          /\ last'.op = "cmd_block"
          /\ last'.res \in {"sudo", "already active"}
          /\ UNCHANGED fsvars]_vars

\* the command was rejected for a block whose stored time is over
C7_Witness ==
    /\ last.op = "cmd_block" /\ last.res = "already active"
    /\ stateFile # NoRec
    /\ clock > stateFile.unblock_time_secs * TicksPerSec

\* C8: apply(W) followed by revert() restores the hosts file to exactly the
\* content it had before apply, for every content without an engine region
\* and every website list W.
C8_RoundTrip ==
    (pure.pc = "reverted" /\ MarkerFree(pure.orig)) => hosts = pure.orig

\* C9: remove_existing_blocks is idempotent and marker-free: applied a second
\* time it gives the same string as applied once, and its result has no line
\* with the start or the end marker.
C9_IdempotentMarkerFree ==
    /\ pure.pc \in {"removed", "removed2"} => MarkerFree(hosts)
    /\ pure.pc = "removed2" => hosts = pure.prev

\* C10: for every website the region holds exactly four denial lines, 0.0.0.0
\* and ::1 for the host and for its counterpart: www.+host for a host that
\* does not start with www., the host without its www. prefix for one that
\* does.
C10_SymmetricBlocking ==
    pure.pc = "applied" => RegionLines(hosts) = SymmetricLines(pure.sites)

\* the lines of a hosts file that are not part of an engine region, in order
UserLines(content) == FilterLines(Lines(content), 1, FALSE)

\* C11: over any sequence of block_items and unblock_all calls the lines of
\* the hosts file that are not part of an engine region (blank ones
\* included) are never added to, removed from or reordered.
C11_OnlyOwnRegion ==
    [][UserLines(hosts') = UserLines(hosts)]_vars

\* a line "0.0.0.0 name" or "::1 name"
IsDenialEntry(line) ==
    /\ Len(line) >= 2
    /\ line[1] \in {IPV4, IPV6}
    /\ \A i \in 2..Len(line) :
          line[i] \notin {IPV4, IPV6, ENOUGH_MARKER_START, ENOUGH_MARKER_END, "u"}

\* C12: the hosts file holds at most one engine region, it is well-formed
\* (one start marker before one end marker), and every line between the
\* markers is a denial entry.
C12_OneWellFormedRegion ==
    /\ StartLines(hosts) <= 1
    /\ EndLines(hosts) = StartLines(hosts)
    /\ \A i, j \in 1..Len(hosts) :
          (hosts[i] = ENOUGH_MARKER_START /\ hosts[j] = ENOUGH_MARKER_END) => i < j
    /\ \A lines \in {RegionLines(hosts)} :
          \A k \in 1..Len(lines) : IsDenialEntry(lines[k])

\* block_items returned Ok a second time, for a profile with a website
C12_Witness ==
    /\ last.op = "block_items" /\ last.res = "ok" /\ last.name = "a"
    /\ nextId = 3
    /\ stateFile # NoRec
    /\ StartLines(hosts) = 1
    /\ Len(RegionLines(hosts)) = 4

\* C13: started without SUDO_USER, the block command and the hidden unblock
\* command return an error and leave every file and unit as it was, whatever
\* their arguments and whatever the commands they would run would do.
C13_PrivilegeGate ==
    \A f \in {FS} :
       /\ \A name \in ProfileNames, d \in {NoDuration} \cup Durations, env \in Envs :
             cmd_block(f, FALSE, name, d, clock, nextId, env) = Err(f, "sudo")
       /\ \A fix \in BOOLEAN, env \in UnblockEnvs :
             cmd_unblock(f, FALSE, fix, env) = Err(f, "sudo")

\* the hidden command was refused for the missing SUDO_USER while a block
\* was active
C13_Witness ==
    /\ last.op = "cmd_unblock" /\ last.res = "sudo"
    /\ stateFile # NoRec
    /\ ~MarkerFree(hosts)
    /\ daemonId \in loaded

\* a step of block_items: it drew the identifier nextId
BlockStep == last'.op = "block_items" /\ clock' = clock

\* the call of block_items wrote and registered no unit and persisted no
\* identifier
NoUnitOfThisCall ==
    /\ daemonId' = NoId
    /\ nextId \notin loaded'
    /\ \A p \in plists' : p.id # nextId

\* C14 as stated: if applying the hosts block fails no unit is written or
\* registered and no identifier is persisted, and a failure to schedule
\* never leaves a hosts-file block in place with no registered unit to end
\* it.
C14_UnitAfterHosts ==
    [][BlockStep =>
          /\ (last'.res = "flush after block" => NoUnitOfThisCall)
          /\ (last'.res = "launchctl load" =>
                 (MarkerFree(hosts') \/ loaded' # {}))]_vars

\* C14, amended: if applying the hosts block fails no unit is written or
\* registered and no identifier is persisted; a failure to schedule leaves
\* the region of the profile in the hosts file, and the unit of this call is
\* not registered.
C14_UnitAfterHostsNoRollback ==
    [][BlockStep =>
          /\ (last'.res = "flush after block" => NoUnitOfThisCall)
          /\ (last'.res = "launchctl load" =>
                 /\ RegionLines(hosts') = SymmetricLines(Config[last'.name].websites)
                 /\ (Config[last'.name].websites # <<>> => ~MarkerFree(hosts'))
                 /\ nextId \notin loaded')]_vars

\* scheduling failed: the region is in the hosts file and no unit is
\* registered
C14_Witness ==
    /\ last.op = "block_items" /\ last.res = "launchctl load"
    /\ ~MarkerFree(hosts)
    /\ loaded = {}

\* the errors unblock_all can return
CleanupErrors == {"flush", "read home_dir", "remove current_block.yaml",
                  "launchctl unload", "create daemon_unloaded", "remove plist",
                  "remove_dir_all"}

\* C15 as stated: block_items cleans up, applies the hosts block, saves the
\* state record and then schedules the unit; when scheduling fails the
\* record of this block is already written.
C15_SaveBeforeSchedule ==
    [][(BlockStep /\ last'.res = "launchctl load") =>
          /\ stateFile' # NoRec
          /\ stateFile'.profile_name = last'.name]_vars

\* C15, amended: block_items cleans up, applies the hosts block, schedules
\* the unit and then saves the state record.  A call that ends in the
\* clean-up has written no region; one that ends in the hosts apply has
\* scheduled no unit; one that ends in scheduling has written the unit file
\* and no record; past the clean-up a record is there only with the unit
\* registered and its identifier persisted.
C15_ScheduleBeforeSave ==
    [][BlockStep =>
          /\ (last'.res \in CleanupErrors => MarkerFree(hosts'))
          /\ (last'.res = "flush after block" => NoUnitOfThisCall /\ stateFile' = NoRec)
          /\ (last'.res = "launchctl load" =>
                 /\ stateFile' = NoRec
                 /\ \E p \in plists' : p.id = nextId)
          /\ ((last'.res \notin CleanupErrors /\ stateFile' # NoRec) =>
                 (nextId \in loaded' /\ daemonId' = nextId))]_vars

\* scheduling failed with the unit file written and no record saved
C15_Witness ==
    /\ last.op = "block_items" /\ last.res = "launchctl load"
    /\ stateFile = NoRec
    /\ plists # {}
    /\ daemonId = NoId

\* the service manager refuses the registration, every other command succeeds
LoadFails == [AllGood EXCEPT !.load = FALSE]

\* C16: when the registration of the unit exits non-zero in block_items
\* after the hosts file was written, block_items returns an error, the
\* region stays in the hosts file, no daemon identifier is persisted and no
\* state record is written (from every state in which a block can start).
C16_ScheduleFailure ==
    CanBlock =>
      \A name \in ProfileNames, d \in Durations :
        \A r \in {block_items(FS, name, Config[name], d, clock, nextId, LoadFails)} :
           /\ r.res # "ok"
           /\ (r.res = "launchctl load" /\ Config[name].websites # <<>>) =>
                 /\ ~MarkerFree(r.fs.hosts)
                 /\ RegionLines(r.fs.hosts) = SymmetricLines(Config[name].websites)
                 /\ r.fs.id = NoId
                 /\ ~r.fs.home
                 /\ r.fs.state = NoRec

\* the registration failed in a second block_items: the region of the new
\* block is in the hosts file, with no identifier and no record
C16_Witness ==
    /\ last.op = "block_items" /\ last.res = "launchctl load" /\ last.name = "a"
    /\ nextId = 3
    /\ RegionLines(hosts) = SymmetricLines(Config["a"].websites)
    /\ stateFile = NoRec
    /\ daemonId = NoId

\* the cache flush of block_websites exits non-zero, every other command
\* succeeds
BlockFlushFails == [AllGood EXCEPT !.flush2 = FALSE]

\* C17: when block_items has written the hosts file and the cache flush then
\* exits non-zero, the block is still applied: the unit is scheduled and the
\* state record is saved.
C17_FlushFailureIsWarning ==
    \A name \in ProfileNames, d \in Durations :
        LET r == block_items(FS, name, Config[name], d, clock, nextId, BlockFlushFails)
        IN (Config[name].websites # <<>> /\ r.res \notin CleanupErrors) =>
              /\ ~MarkerFree(r.fs.hosts)
              /\ nextId \in r.fs.loaded
              /\ r.fs.id = nextId
              /\ r.fs.state # NoRec
              /\ r.fs.state.profile_name = name

\* one clean-up command exits non-zero: the cache flush of unblock_websites,
\* or launchctl unload
FlushFails == [AllGood EXCEPT !.flush = FALSE]
UnloadFails == [AllGood EXCEPT !.unload = FALSE]

\* a block is active: its record, its identifier and its unit are there
ActiveBlock ==
    /\ stateFile # NoRec
    /\ daemonId # NoId
    /\ homeFile
    /\ daemonId \in loaded
    /\ PlistOf(FS, daemonId) # {}

\* C18: when one clean-up step of unblock_all fails (the cache flush after
\* the hosts revert, or the unregistration of the unit) the remaining steps
\* are still carried out: the identifier and the unit definition are
\* removed and the state record is cleared.
C18_BestEffortTeardown ==
    ActiveBlock =>
        \A env \in {FlushFails, UnloadFails} :
            LET r == unblock_all(FS, env)
            IN /\ MarkerFree(r.fs.hosts)
               /\ r.fs.id = NoId
               /\ PlistOf(r.fs, daemonId) = {}
               /\ r.fs.state = NoRec

\* C19: in remove(), a non-zero exit of the unregister command is only a
\* warning: remove() still deletes the identifier file and the unit
\* definition file and returns no error.
C19_UnloadFailureIsWarning ==
    ActiveBlock =>
        LET r == remove(FS, UnloadFails)
        IN /\ r.res = "ok"
           /\ r.fs.id = NoId
           /\ PlistOf(r.fs, daemonId) = {}

\* the steps of block_items after which a run can be stopped with the files
\* half written: the hosts write of block_websites, launchctl load, and the
\* writes of daemon_id and of home_dir in schedule
StopPoints == {"hosts write", "launchctl load", "daemon_id write", "home_dir write"}

\* the files as a run of block_items leaves them when it is stopped after
\* the step, every command having succeeded so far
block_items_stopped_after(step, f, profile, duration, now, id) ==
    LET f0 == [f EXCEPT !.dir = TRUE]
        r1 == unblock_all(f0, AllGood)
        r2 == IF profile.websites # <<>>
                 THEN block_websites(r1.fs, profile.websites, AllGood)
                 ELSE Ok(r1.fs)
        unblock_time == now + duration
        f3 == [r2.fs EXCEPT
                 !.plists = @ \cup {[id |-> id, sec |-> SecondOfDay(unblock_time)]},
                 !.due = @ \cup {[id |-> id, at |-> unblock_time, since |-> now]},
                 !.loaded = @ \cup {id}]
        f4 == [f3 EXCEPT !.dir = TRUE, !.id = id]
        f5 == [f4 EXCEPT !.home = TRUE]
    IN IF step = "hosts write" THEN r2.fs
       ELSE IF step = "launchctl load" THEN f3
       ELSE IF step = "daemon_id write" THEN f4
       ELSE f5

\* no unit is left over from an earlier block
NoOrphan ==
    /\ loaded \subseteq {daemonId}
    /\ \A p \in plists : p.id = daemonId

\* C20: from every state in which a run of block_items stopped after one of
\* its steps, a fresh block request's clean-up succeeds and the request ends
\* with one hosts region, one persisted identifier, one installed unit and
\* one state record, all of the new block.
C20_CrashReconciliation ==
    (NoOrphan /\ unblock_all([FS EXCEPT !.dir = TRUE], AllGood).res = "ok") =>
        \A step \in StopPoints, old \in ProfileNames :
            LET c == block_items_stopped_after(step, FS, Config[old],
                                               Config[old].duration, clock, nextId)
                r == block_items(c, "a", Config["a"], Config["a"].duration, clock,
                                 nextId + 1, AllGood)
            IN /\ r.res = "ok"
               /\ StartLines(r.fs.hosts) = 1 /\ EndLines(r.fs.hosts) = 1
               /\ RegionLines(r.fs.hosts) = SymmetricLines(Config["a"].websites)
               /\ r.fs.id = nextId + 1
               /\ r.fs.loaded = {nextId + 1}
               /\ \A p \in r.fs.plists : p.id = nextId + 1
               /\ r.fs.state # NoRec /\ r.fs.state.profile_name = "a"

\* C22: unblock_all called when no state directory exists reverts the hosts
\* file, finds no daemon to remove, and returns an error for the absent
\* state; the system is left Unblocked, and a second unblock_all in a row
\* fails the same way and changes nothing.
C22_UnblockWithoutState ==
    ~stateDir =>
        \A r1 \in {unblock_all(FS, AllGood)} :
           /\ r1.res = "remove_dir_all"
           /\ MarkerFree(r1.fs.hosts)
           /\ r1.fs.state = NoRec
           /\ r1.fs.id = NoId
           /\ \A r2 \in {unblock_all(r1.fs, AllGood)} :
                 r2.res = "remove_dir_all" /\ r2.fs = r1.fs

\* C23: revert() on a hosts file without an engine region leaves the
\* content as it was, whatever its trailing newline or blank lines.
C23_RevertWithoutRegion ==
    (pure.pc = "reverted0" /\ MarkerFree(pure.orig)) => hosts = pure.orig

\* C24: with no identifier persisted remove() returns success, runs no
\* command (its result does not depend on what a command would do) and
\* changes no file or unit, the state record included; called twice in a
\* row it does what it does called once.
C24_RemoveWithoutIdentifier ==
    daemonId = NoId =>
        \A f \in {FS}, env \in UnblockEnvs :
           /\ remove(f, env) = Ok(f)
           /\ remove(remove(f, env).fs, env) = remove(f, env)

\* unblock_all succeeded with no identifier persisted: the unit left over
\* from an earlier block is still registered, its file still there
C24_Witness ==
    /\ last.op = "unblock_all" /\ last.res = "ok" /\ last.id = NoId
    /\ daemonId = NoId
    /\ loaded # {}
    /\ \A id \in loaded : PlistOf(FS, id) # {}

\* the toggle before line i: set when the nearest marker line above holds
\* the start marker
ToggleSet(ls, i) ==
    \E j \in 1..(i-1) :
        /\ Contains(ls[j], ENOUGH_MARKER_START)
        /\ \A k \in (j+1)..(i-1) : ~IsMarkerLine(ls[k])

\* the lines of ls that hold no marker and stand where the toggle is clear,
\* in the order of ls
ToggleKept(ls) ==
    LET kept == {i \in 1..Len(ls) : ~IsMarkerLine(ls[i]) /\ ~ToggleSet(ls, i)}
        nth(n) == CHOOSE i \in kept : Cardinality({j \in kept : j <= i}) = n
    IN [n \in 1..Cardinality(kept) |-> ls[nth(n)]]

\* C25: remove_existing_blocks is the line filter of one toggle: a line with
\* the start marker sets it and is dropped, a line with the end marker
\* clears it and is dropped, any other line is kept exactly when the toggle
\* is clear, and the kept lines stay in order.
C25_ToggleFilter ==
    pure.pc = "removed" => hosts = Join(ToggleKept(Lines(pure.orig)))

\* a start marker line, an end marker line and a line kept after them
C25_Witness ==
    /\ pure.pc = "removed"
    /\ pure.orig = <<ENOUGH_MARKER_START, NL, ENOUGH_MARKER_END, NL, "u">>
    /\ hosts = <<"u">>

\* C26: a block_items that returns Ok for a profile without websites leaves
\* no region in the hosts file, also when one was there before, and still
\* registers the unit, persists its identifier and saves the record, so
\* that get_status reports Blocked.
C26_EmptyWebsiteList ==
    [][(BlockStep /\ last'.res = "ok" /\ Config[last'.name].websites = <<>>) =>
          /\ MarkerFree(hosts')
          /\ nextId \in loaded'
          /\ \E p \in plists' : p.id = nextId
          /\ daemonId' = nextId
          /\ stateFile' # NoRec
          /\ stateFile'.profile.websites = <<>>
          /\ is_blocked(get_status(FS', clock', FALSE).status)]_vars

\* block_items returned Ok for the profile without websites after a call
\* that had written a region and registered no unit
C26_Witness ==
    /\ last.op = "block_items" /\ last.res = "ok" /\ last.name = "c"
    /\ hosts = <<"u", NL, NL>>
    /\ stateFile # NoRec
    /\ daemonId = 2 /\ loaded = {2}
    /\ \E p \in plists : p.id = 1

\* a call of block_items with at least one website, or of unblock_all, that
\* returned Ok
SuccessfulCall ==
    /\ clock' = clock
    /\ last'.res = "ok"
    /\ \/ last'.op = "unblock_all"
       \/ last'.op = "block_items" /\ Config[last'.name].websites # <<>>

\* C27: after every call of block_items (with at least one website) or of
\* unblock_all that returned Ok, a state record exists exactly when an
\* identifier is persisted, and exactly when the hosts file holds a region.
C27_ArtifactsAgree ==
    [][SuccessfulCall =>
          /\ (stateFile' # NoRec) <=> (daemonId' # NoId)
          /\ (daemonId' # NoId) <=> HasRegion(hosts')]_vars

\* a block, its unblock and a second block, the last of them successful and
\* all three artifacts present
C27_Witness ==
    /\ last.op = "block_items" /\ last.res = "ok" /\ last.name = "a"
    /\ nextId = 3
    /\ stateFile # NoRec /\ daemonId = 2 /\ HasRegion(hosts)
    /\ plists = {p \in plists : p.id = 2} /\ loaded = {2}
    /\ hosts = <<"u", NL>> \o block_region(Config["a"].websites)

\* C28: in every state between calls, every unit that is registered or whose
\* definition file exists is the one the identifier file names.
C28_NoOrphanUnit ==
    /\ \A id \in loaded : id = daemonId
    /\ \A p \in plists : p.id = daemonId

\* both processes returned Ok, the callback's removal of the state
\* directory coming after the command's save
BothFinishedCallbackLast ==
    /\ race.pc["callback"] = "done"
    /\ race.pc["command"] = "done"
    /\ race.late

\* C21: nothing orders the steps of the block command and of the firing
\* unit: whenever both have returned Ok with the callback's removal of the
\* state directory as the last step, the new block's unit is registered
\* and its region is in the hosts file, while its record and its
\* identifier are gone.
C21_UnserializedRace ==
    BothFinishedCallbackLast =>
        /\ nextId \in loaded
        /\ PlistOf(FS, nextId) # {}
        /\ Config[race.name].websites # <<>> => HasRegion(hosts)
        /\ stateFile = NoRec
        /\ daemonId = NoId
        /\ ~stateDir

\* both returned Ok and the three artifacts of the new block disagree:
\* a region and a registered unit, no record and no identifier
C21_Witness ==
    /\ BothFinishedCallbackLast
    /\ race.name = "a"
    /\ HasRegion(hosts)
    /\ loaded = {nextId}
    /\ stateFile = NoRec
    /\ daemonId = NoId

====
